---- MODULE Spec2Model ----
(***************************************************************************)
(* A model of log-option_payoff.py: the script that samples the three      *)
(* segments of the log-option payoff (0 below 0, x/e on [0,e), ln x from   *)
(* e on), evaluates them in float64 and draws them with matplotlib.        *)
(*                                                                         *)
(* float64 values are modelled exactly: a finite double is sign * m * 2^x  *)
(* with m an arbitrary-size natural (a little-endian sequence of limbs),   *)
(* and every float operation is the exact operation followed by IEEE-754   *)
(* round-to-nearest-even to 53 bits.  The exponent range of binary64 is    *)
(* not modelled: every value of this program lies between 2^-60 and 2^5.   *)
(***************************************************************************)
EXTENDS Integers, Sequences, FiniteSets, TLC

----------------------------------------------------------------------------
(* Naturals of arbitrary size: little-endian sequences of limbs below Base *)
(* with no leading zero limb; <<>> is zero.  The operations are written    *)
(* with quantifiers over the limbs rather than by recursion along them.    *)

LimbBits == 12
Base == 2^LimbBits

Min(i, j) == IF i <= j THEN i ELSE j
Max(i, j) == IF i >= j THEN i ELSE j
MaxOf(S) == CHOOSE m \in S : \A k \in S : k <= m

\* the limb of weight Base^(i-1), 0 beyond the ends
Limb(a, i) == IF i >= 1 /\ i <= Len(a) THEN a[i] ELSE 0

\* a without its leading zero limbs
BNorm(a) ==
    IF a = <<>> THEN <<>>
    ELSE LET nz == {i \in 1..Len(a) : a[i] # 0}
         IN  IF nz = {} THEN <<>> ELSE SubSeq(a, 1, MaxOf(nz))

\* the natural n < 2^31
BFromInt(n) == BNorm(<<n % Base, (n \div Base) % Base, n \div (Base * Base)>>)

\* a + b: limb i takes a carry when some limb j below it overflows and the
\* limbs between them are all Base - 1
BAdd(a, b) ==
    IF a = <<>> THEN b
    ELSE IF b = <<>> THEN a
    ELSE LET n == Max(Len(a), Len(b)) + 1
             t(i) == Limb(a, i) + Limb(b, i)
             carry(i) == \E j \in 1..(i - 1) :
                 t(j) >= Base /\ \A k \in (j + 1)..(i - 1) : t(k) = Base - 1
         IN  BNorm([i \in 1..n |->
                      (t(i) + (IF carry(i) THEN 1 ELSE 0)) % Base])

\* a - b, for a >= b: limb i lends when some limb j below it is short and the
\* limbs between them are all equal
BSub(a, b) ==
    IF b = <<>> THEN a
    ELSE IF a = b THEN <<>>
    ELSE LET t(i) == Limb(a, i) - Limb(b, i)
             borrow(i) == \E j \in 1..(i - 1) :
                 t(j) < 0 /\ \A k \in (j + 1)..(i - 1) : t(k) = 0
         IN  BNorm([i \in 1..Len(a) |->
                      (t(i) - (IF borrow(i) THEN 1 ELSE 0)) % Base])

\* -1, 0 or 1 as a < b, a = b, a > b
BCmp(a, b) ==
    IF a = b THEN 0
    ELSE IF Len(a) < Len(b) THEN -1
    ELSE IF Len(a) > Len(b) THEN 1
    ELSE LET top == MaxOf({i \in 1..Len(a) : a[i] # b[i]})
         IN  IF a[top] < b[top] THEN -1 ELSE 1

RECURSIVE ColSum(_, _, _, _)
\* the sum over j = 1..i of a[j] * b[c + 1 - j]
ColSum(a, b, c, i) ==
    IF i = 0 THEN 0 ELSE (a[i] * Limb(b, c + 1 - i)) + ColSum(a, b, c, i - 1)

\* a * b, for a of at most 30 limbs: the column sums, each below 2^31, are
\* split in three limbs and the three rows are added
BMul(a, b) ==
    IF a = <<>> \/ b = <<>> THEN <<>>
    ELSE LET n == Len(a) + Len(b)
             col(c) == ColSum(a, b, c, Len(a))
         IN  BAdd(BAdd(BNorm([c \in 1..n |-> col(c) % Base]),
                       BNorm([c \in 1..n |-> (col(c - 1) \div Base) % Base])),
                  BNorm([c \in 1..n |-> col(c - 2) \div (Base * Base)]))

\* a * k, for 0 <= k <= Base
BMulInt(a, k) ==
    IF a = <<>> \/ k = 0 THEN <<>>
    ELSE LET n == Len(a) + 1
         IN  BAdd(BNorm([i \in 1..n |-> (Limb(a, i) * k) % Base]),
                  BNorm([i \in 1..n |-> (Limb(a, i - 1) * k) \div Base]))

\* a * 2^n
BShl(a, n) ==
    IF a = <<>> \/ n = 0 THEN a
    ELSE LET q == n \div LimbBits
             r == n % LimbBits
         IN  BNorm([i \in 1..(Len(a) + q + 1) |->
                      ((Limb(a, i - q) * 2^r) % Base)
                      + (Limb(a, i - q - 1) \div 2^(LimbBits - r))])

\* floor(a / 2^n)
BShr(a, n) ==
    IF a = <<>> \/ n = 0 THEN a
    ELSE LET q == n \div LimbBits
             r == n % LimbBits
         IN  BNorm([i \in 1..Len(a) |->
                      (Limb(a, i + q) \div 2^r)
                      + ((Limb(a, i + q + 1) % 2^r) * 2^(LimbBits - r))])

\* the number of bits of n < 2^31
IntBitLen(n) == IF n = 0 THEN 0 ELSE MaxOf({k \in 1..31 : 2^(k - 1) <= n})

BBitLen(a) ==
    IF a = <<>> THEN 0 ELSE LimbBits * (Len(a) - 1) + IntBitLen(a[Len(a)])

BOdd(a) == a # <<>> /\ a[1] % 2 = 1

\* the quotient digit floor(cur / b), for cur < Base * b and b with its top
\* bit set in its top limb: the estimate from the top limbs of cur and b is
\* at most 2 too large [Knuth, TAOCP 4.3.1, Theorem B]
Digit(cur, b) ==
    LET n   == Len(b)
        est == Min((Limb(cur, n + 1) * Base + Limb(cur, n)) \div b[n], Base - 1)
    IN  IF BCmp(BMulInt(b, est), cur) <= 0 THEN est
        ELSE IF BCmp(BMulInt(b, est - 1), cur) <= 0 THEN est - 1
        ELSE est - 2

\* the new state of the long division by b once the limb brought down has
\* made the running remainder cur and d is the next digit of the quotient
DivStepDigit(b, st, cur, d) ==
    [i |-> st.i - 1, q |-> <<d>> \o st.q, r |-> BSub(cur, BMulInt(b, d))]

DivStepCur(b, st, cur) ==
    IF BCmp(cur, b) < 0 THEN [i |-> st.i - 1, q |-> <<0>> \o st.q, r |-> cur]
    ELSE DivStepDigit(b, st, cur, Digit(cur, b))

\* one step of the long division of a by b: st holds the quotient q and the
\* remainder r of the limbs of a above st.i, and the limb st.i is brought down
DivStep(a, b, st) == DivStepCur(b, st, BNorm(<<a[st.i]>> \o st.r))

RECURSIVE DivLoop(_, _, _)
DivLoop(a, b, st) == IF st.i = 0 THEN st ELSE DivLoop(a, b, DivStep(a, b, st))

\* the result of the division of a by b from the last state of the long
\* division of a * 2^sh by b * 2^sh
DivResult(st, sh) == [q |-> BNorm(st.q), r |-> BShr(st.r, sh)]

DivStart(a, b, sh) ==
    DivResult(DivLoop(a, b, [i |-> Len(a), q |-> <<>>, r |-> <<>>]), sh)

\* [q |-> floor(a / b), r |-> a mod b], for b > 0: both are first shifted
\* left until the top limb of b has its top bit set
BDivMod(a, b) ==
    DivStart(BShl(a, LimbBits - IntBitLen(b[Len(b)])),
             BShl(b, LimbBits - IntBitLen(b[Len(b)])),
             LimbBits - IntBitLen(b[Len(b)]))

----------------------------------------------------------------------------
(* float64.  A finite double is [s |-> 1 or -1, m |-> significand, x |->   *)
(* exponent], of value s * m * 2^x, with 2^52 <= m < 2^53; zero is FZero.  *)
(* A dyadic is such a record with any m: the exact result of an operation  *)
(* before it is rounded.                                                   *)

Precision == 53

FZero == [s |-> 1, m |-> <<>>, x |-> 0]

\* does rounding the significand q, cut from a number of sign s with
\* remainder rem below the cut (half = half a unit of q), add a unit?
RoundsUp(mode, s, q, rem, half) ==
    CASE mode = "nearest" ->
            BCmp(rem, half) > 0 \/ (BCmp(rem, half) = 0 /\ BOdd(q))
      [] mode = "down" -> s = -1 /\ rem # <<>>
      [] mode = "up"   -> s = 1 /\ rem # <<>>

\* a significand q2 of 53 or 54 bits brought to 53
Renorm(s, q2, x) ==
    IF BBitLen(q2) > Precision THEN [s |-> s, m |-> BShr(q2, 1), x |-> x + 1]
    ELSE [s |-> s, m |-> q2, x |-> x]

\* s * m * 2^x, for m of more than 53 bits, cut to the 53-bit q = floor(m /
\* 2^sh) and rounded
RoundCut(s, m, x, mode, sh, q) ==
    IF RoundsUp(mode, s, q, BSub(m, BShl(q, sh)), BShl(<<1>>, sh - 1))
    THEN Renorm(s, BAdd(q, <<1>>), x + sh)
    ELSE [s |-> s, m |-> q, x |-> x + sh]

\* s * m * 2^x rounded, for m of len bits
RoundLen(s, m, x, mode, len) ==
    IF len <= Precision
    THEN [s |-> s, m |-> BShl(m, Precision - len), x |-> x - (Precision - len)]
    ELSE RoundCut(s, m, x, mode, len - Precision, BShr(m, len - Precision))

\* the double that s * m * 2^x rounds to: to nearest, ties to even
\* ("nearest"), toward -infinity ("down") or toward +infinity ("up")
Round(s, m, x, mode) ==
    IF m = <<>> THEN FZero ELSE RoundLen(s, m, x, mode, BBitLen(m))

DyNeg(a) == IF a.m = <<>> THEN a ELSE [a EXCEPT !.s = -a.s]

\* sa * am * 2^x + sb * bm * 2^x, exactly
DyAddAligned(sa, am, sb, bm, x) ==
    IF sa = sb THEN [s |-> sa, m |-> BAdd(am, bm), x |-> x]
    ELSE IF am = bm THEN FZero
    ELSE IF BCmp(am, bm) > 0 THEN [s |-> sa, m |-> BSub(am, bm), x |-> x]
    ELSE [s |-> sb, m |-> BSub(bm, am), x |-> x]

\* a + b, exactly
DyAdd(a, b) ==
    IF a.m = <<>> THEN b
    ELSE IF b.m = <<>> THEN a
    ELSE DyAddAligned(a.s, BShl(a.m, a.x - Min(a.x, b.x)),
                      b.s, BShl(b.m, b.x - Min(a.x, b.x)), Min(a.x, b.x))

\* a * b, exactly
DyMul(a, b) ==
    IF a.m = <<>> \/ b.m = <<>> THEN FZero
    ELSE [s |-> a.s * b.s, m |-> BMul(a.m, b.m), x |-> a.x + b.x]

\* the sign of a: -1, 0 or 1
DySign(a) == IF a.m = <<>> THEN 0 ELSE a.s

\* -1, 0 or 1 as a < b, a = b, a > b
DyCmp(a, b) == DySign(DyAdd(a, DyNeg(b)))

DyAbs(a) == [a EXCEPT !.s = 1]

\* the integer n as a dyadic
DyInt(n) == [s |-> IF n < 0 THEN -1 ELSE 1,
             m |-> BFromInt(IF n < 0 THEN -n ELSE n), x |-> 0]

RoundDy(a) == Round(a.s, a.m, a.x, "nearest")

\* float(n)
FFromInt(n) == RoundDy(DyInt(n))

FAdd(a, b) == RoundDy(DyAdd(a, b))
FSub(a, b) == RoundDy(DyAdd(a, DyNeg(b)))
FMul(a, b) == RoundDy(DyMul(a, b))

\* the double nearest to s * (d.q + f) * 2^x, where the fraction f is 0
\* when d.r is 0 and is strictly between 0 and 1 otherwise: a bit is
\* appended to d.q that is set when d.r is not 0
RoundQuotient(s, d, x) ==
    Round(s, BAdd(BShl(d.q, 1), IF d.r = <<>> THEN <<>> ELSE <<1>>), x - 1,
          "nearest")

\* a / b for b # 0: the quotient of the significands to 57 bits or more
FDiv(a, b) ==
    IF a.m = <<>> THEN FZero
    ELSE RoundQuotient(a.s * b.s, BDivMod(BShl(a.m, Precision + 4), b.m),
                       a.x - b.x - (Precision + 4))

FLt(a, b) == DyCmp(a, b) < 0
FLe(a, b) == DyCmp(a, b) <= 0

\* 2.718, Euler's number cut to three decimals
EulerThreeDecimals == FDiv(FFromInt(2718), FFromInt(1000))

\* numpy.e = 0x1.5bf0a8b145769p+1, the double nearest to Euler's number
NumpyE == Round(1, BAdd(BShl(BFromInt(5700650), 30), BFromInt(185882473)),
                -51, "nearest")

----------------------------------------------------------------------------
(* numpy.linspace(start, stop, num, endpoint) on float64 scalars.          *)

\* linspace with the endpoint flag ignored: stop is always the last sample
linspace_closed(start, stop, num, endpoint) ==
    [i \in 1..num |->
        IF i = num THEN stop
        ELSE FAdd(FMul(FFromInt(i - 1),
                       FDiv(FSub(stop, start), FFromInt(num - 1))), start)]

\* the samples of linspace before the endpoint is set: arange(0, num) times
\* step, or (when step is 0) divided by div and times delta, or (when div is
\* 0) times delta, and start added
linspace_fill(start, num, div, delta, step) ==
    [i \in 1..num |->
        FAdd(FMul(IF div > 0 /\ step = FZero
                  THEN FDiv(FFromInt(i - 1), FFromInt(div))
                  ELSE FFromInt(i - 1),
                  IF div > 0 /\ step # FZero THEN step ELSE delta),
             start)]

linspace_steps(start, stop, num, endpoint, div, delta) ==
    IF endpoint /\ num > 1
    THEN [linspace_fill(start, num, div, delta,
                        IF div > 0 THEN FDiv(delta, FFromInt(div)) ELSE FZero)
            EXCEPT ![num] = stop]
    ELSE linspace_fill(start, num, div, delta,
                       IF div > 0 THEN FDiv(delta, FFromInt(div)) ELSE FZero)

linspace(start, stop, num, endpoint) ==
    linspace_steps(start, stop, num, endpoint,
                   IF endpoint THEN num - 1 ELSE num, FSub(stop, start))

----------------------------------------------------------------------------
(* numpy.log on float64.  The value is computed by the platform's log: it  *)
(* is a double next to the real ln x (an error below one unit in the last  *)
(* place), and which of the two neighbours it is depends on the build.     *)
(* The model computes ln x = k ln 2 + 2 atanh((u - 1)/(u + 1)), x = 2^k u, *)
(* 3/4 <= u < 3/2, in fixed point with every step rounded down, which      *)
(* gives bounds lo <= ln x <= hi at most 2^-88 apart, and rounds them in   *)
(* the direction the build takes.                                          *)

LogFracBits == 96
LogTerms == 24

FNaN    == [s |-> 0, m |-> <<>>, x |-> 1]
FNegInf == [s |-> -1, m |-> <<>>, x |-> 1]

RECURSIVE BFromChunks(_)
\* the natural whose 28-bit digits, most significant first, are c
BFromChunks(c) ==
    IF c = <<>> THEN <<>>
    ELSE BAdd(BShl(BFromChunks(SubSeq(c, 1, Len(c) - 1)), 28),
              BFromInt(c[Len(c)]))

\* floor(ln 2 * 2^LogFracBits), from floor(ln 2 * 2^140)
Ln2Fixed ==
    BShr(BFromChunks(<<186065279, 131190649, 180133435, 60294130, 258667535>>),
         140 - LogFracBits)

\* one term of the series: term st.j, floor(st.t / (2j+1)), is added to
\* st.sum, and the next odd power is floor(st.t * w / 2^LogFracBits)
AtanhStep(st, w) ==
    [j   |-> st.j + 1,
     t   |-> BShr(BMul(st.t, w), LogFracBits),
     sum |-> BAdd(st.sum, BDivMod(st.t, BFromInt(2 * st.j + 1)).q)]

RECURSIVE AtanhSum(_, _)
\* the sum of the terms st.j..LogTerms-1 of the series, added to st.sum
AtanhSum(st, w) ==
    IF st.j = LogTerms \/ st.t = <<>> THEN st.sum
    ELSE AtanhSum(AtanhStep(st, w), w)

\* the series from its first term z
AtanhSeries(z) ==
    AtanhSum([j |-> 0, t |-> z, sum |-> <<>>], BShr(BMul(z, z), LogFracBits))

\* bounds of k ln 2 + sign * 2 atanh(z) from the sum of the series, which
\* is at most 3 LogTerms + 1 units below atanh(z), and from Ln2Fixed, which
\* is at most a unit below ln 2: klo <= |k| ln 2 <= khi, slo <= 2 atanh(z)
\* <= shi
LnCombine(k, neg, klo, khi, slo, shi) ==
    [lo |-> DyAdd(IF k < 0 THEN DyNeg(khi) ELSE klo,
                  IF neg THEN DyNeg(shi) ELSE slo),
     hi |-> DyAdd(IF k < 0 THEN DyNeg(klo) ELSE khi,
                  IF neg THEN DyNeg(slo) ELSE shi)]

LnFromSum(k, neg, ka, sum) ==
    LnCombine(k, neg,
              [s |-> 1, m |-> BMul(ka, Ln2Fixed), x |-> -LogFracBits],
              [s |-> 1, m |-> BMul(ka, BAdd(Ln2Fixed, <<1>>)), x |-> -LogFracBits],
              [s |-> 1, m |-> BShl(sum, 1), x |-> -LogFracBits],
              [s |-> 1, m |-> BShl(BAdd(sum, BFromInt(3 * LogTerms + 1)), 1),
               x |-> -LogFracBits])

\* bounds of ln(m / unit * 2^k), for 3/4 <= m / unit < 3/2
LnReduced(m, unit, k, neg) ==
    LnFromSum(k, neg, BFromInt(IF k < 0 THEN -k ELSE k),
              AtanhSeries(
                  BDivMod(BShl(IF neg THEN BSub(unit, m) ELSE BSub(m, unit),
                               LogFracBits),
                          BAdd(m, unit)).q))

LnScaled(m, unit, k) == LnReduced(m, unit, k, BCmp(m, unit) < 0)

\* dyadics [lo, hi] with lo <= ln x <= hi, for a double x > 0: x is
\* x.m / unit * 2^k with unit 2^52, or 2^53 when x.m >= 3/2 * 2^52
LnBounds(x) ==
    IF BCmp(x.m, BShl(<<3>>, Precision - 2)) >= 0
    THEN LnScaled(x.m, BShl(<<1>>, Precision), x.x + Precision)
    ELSE LnScaled(x.m, BShl(<<1>>, Precision - 1), x.x + Precision - 1)

\* the bounds b of a logarithm rounded as the build does
LogRound(b, mode) ==
    IF mode = "up" THEN Round(b.hi.s, b.hi.m, b.hi.x, "up")
    ELSE Round(b.lo.s, b.lo.m, b.lo.x, mode)

\* numpy.log1p(x) = ln(1 + x), one name away from numpy.log
log1p(x, mode) == LogRound(LnBounds(FAdd(FFromInt(1), x)), mode)

\* numpy.log(x) on a build whose log rounds as mode says; log(0) is -inf and
\* the log of a negative number is nan (each with a RuntimeWarning)
log(x, mode) ==
    IF x.m = <<>> THEN FNegInf
    ELSE IF x.s = -1 THEN FNaN
    ELSE IF x = FFromInt(1) THEN FZero
    ELSE LogRound(LnBounds(x), mode)

----------------------------------------------------------------------------
(* The other numpy and matplotlib operations the script calls.             *)

\* numpy.ones_like(a), one letter away from zeros_like
ones_like(a) == [i \in 1..Len(a) |-> FFromInt(1)]

\* numpy.zeros_like(a): an array of the length of a, every element 0.0
zeros_like(a) == [i \in 1..Len(a) |-> FZero]

\* c + a for a float c and an array a: the slope added, not multiplied
add(c, a) == [i \in 1..Len(a) |-> FAdd(c, a[i])]

\* c * a for a float c and an array a: every element multiplied by c
multiply(c, a) == [i \in 1..Len(a) |-> FMul(c, a[i])]

\* the natural a < 2^31 as an integer
BToInt(a) == Limb(a, 1) + (Base * Limb(a, 2)) + (Base * Base * Limb(a, 3))

\* ceil(a) as an integer, for |a| < 2^31
FCeil(a) ==
    IF a.m = <<>> THEN 0
    ELSE IF a.x >= 0 THEN a.s * BToInt(BShl(a.m, a.x))
    ELSE LET q == BShr(a.m, -a.x)
             exact == BShl(q, -a.x) = a.m
         IN  IF a.s = -1 THEN -BToInt(q)
             ELSE IF exact THEN BToInt(q) ELSE BToInt(q) + 1

\* numpy.arange(start, stop, step) on Python ints, step > 0
arange(start, stop, step) ==
    [i \in 1..Max((stop - start + step - 1) \div step, 0) |->
        start + (i - 1) * step]

\* arange with stop counted in: one element more whenever stop is a
\* whole number of steps from start
farange_closed(start, stop, step) ==
    [i \in 1..(FCeil(FDiv(FSub(stop, start), step)) + 1) |->
        FAdd(start, FMul(FFromInt(i - 1), step))]

\* numpy.arange(start, stop, step) on floats: ceil((stop - start) / step)
\* elements; the first two are start and start + step, and element i is
\* start + i * delta for delta the difference of the first two
farange(start, stop, step) ==
    LET len   == Max(FCeil(FDiv(FSub(stop, start), step)), 0)
        next  == FAdd(start, step)
        delta == FSub(next, start)
    IN  [i \in 1..len |->
            IF i = 1 THEN start
            ELSE IF i = 2 THEN next
            ELSE FAdd(start, FMul(FFromInt(i - 1), delta))]

\* an axis' view limits; auto: autoscaling is still pending, the limits are
\* matplotlib's initial (0, 1)
AutoLim == [auto |-> TRUE, lo |-> FZero, hi |-> FFromInt(1)]

\* Axes.set_xlim(lo, hi) / set_ylim(lo, hi) on Python ints
set_lim(lo, hi) == [auto |-> FALSE, lo |-> FFromInt(lo), hi |-> FFromInt(hi)]

\* Axis.set_ticks(ticks) on the view limits: they are widened, never
\* narrowed, to hold every tick
set_ticks(lim, ticks) ==
    LET tmin == CHOOSE t \in 1..Len(ticks) :
                    \A u \in 1..Len(ticks) : FLe(ticks[t], ticks[u])
        tmax == CHOOSE t \in 1..Len(ticks) :
                    \A u \in 1..Len(ticks) : FLe(ticks[u], ticks[t])
    IN  IF ticks = <<>> THEN lim
        ELSE [lim EXCEPT !.lo = IF FLt(ticks[tmin], @) THEN ticks[tmin] ELSE @,
                         !.hi = IF FLt(@, ticks[tmax]) THEN ticks[tmax] ELSE @]

\* the float literals 0.5 and 0.8
Half == FDiv(FFromInt(1), FFromInt(2))
ZeroPointEight == FDiv(FFromInt(8), FFromInt(10))

\* plt.figure(figsize=(w, h)): a figure with one empty set of axes
NewFigure(w, h) ==
    [figsize |-> <<w, h>>, lines |-> <<>>,
     title  |-> [text |-> "", fontsize |-> 12],
     xlabel |-> [text |-> "", fontsize |-> 10],
     ylabel |-> [text |-> "", fontsize |-> 10],
     grid   |-> [on |-> FALSE, which |-> "major", linestyle |-> "-",
                 linewidth |-> ZeroPointEight],
     xlim |-> AutoLim, ylim |-> AutoLim, xticks |-> <<>>, yticks |-> <<>>,
     hlines |-> <<>>, vlines |-> <<>>, tight |-> FALSE]

----------------------------------------------------------------------------
(* The script.  pc is the line of the statement to run next; globals is    *)
(* the module namespace; figs is pyplot's list of open figures, the last   *)
(* one current; shown is what plt.show() has put on screen; warnings is    *)
(* the set of RuntimeWarnings numpy has raised; libm is the direction in   *)
(* which the build's log rounds; status is "running", "failed" (an         *)
(* uncaught exception ended the run) or "exited".                          *)

VARIABLES pc, status, libm, globals, figs, shown, warnings

vars == <<pc, status, libm, globals, figs, shown, warnings>>

\* the lines that hold a statement
Statements ==
    <<1, 2, 5, 8, 9, 10, 13, 14, 15, 18, 19, 20, 21, 24, 25, 26, 27,
      30, 31, 32, 33, 36, 37, 40, 41>>

\* the line after the last one
EndOfFile == Statements[Len(Statements)] + 1

\* the line of the statement that follows line l
NextLine(l) ==
    LET later == {i \in 1..Len(Statements) : Statements[i] > l}
    IN  IF later = {} THEN EndOfFile
        ELSE Statements[CHOOSE i \in later : \A k \in later : i <= k]

Init ==
    /\ pc = Statements[1]
    /\ status = "running"
    /\ libm \in {"nearest", "down", "up"}
    /\ globals = <<>>
    /\ figs = <<>>
    /\ shown = <<>>
    /\ warnings = {}

\* the statement of line l is about to run
At(l) == status = "running" /\ pc = l

\* name = val, and on to the next statement
Bind(name, val) ==
    /\ globals' = (name :> val) @@ globals
    /\ pc' = NextLine(pc)
    /\ UNCHANGED <<status, libm, figs, shown, warnings>>

\* a pyplot call in interactive mode (plt.ion()): the figure is put on
\* screen at once
DrawInteractive(f) ==
    /\ figs # <<>>
    /\ figs' = [figs EXCEPT ![Len(figs)] = f]
    /\ shown' = figs'
    /\ pc' = NextLine(pc)
    /\ UNCHANGED <<status, libm, globals, warnings>>

\* a pyplot call that turns the current figure into f
Draw(f) ==
    /\ figs # <<>>
    /\ figs' = [figs EXCEPT ![Len(figs)] = f]
    /\ pc' = NextLine(pc)
    /\ UNCHANGED <<status, libm, globals, shown, warnings>>

CurFig == figs[Len(figs)]

\* line 1: import numpy as np
import_numpy == At(1) /\ Bind("np", "numpy")

\* line 2: import matplotlib.pyplot as plt
import_pyplot == At(2) /\ Bind("plt", "matplotlib.pyplot")

\* line 5: e = np.e
assign_e == At(5) /\ Bind("e", NumpyE)

\* line 8: x1 = np.linspace(-20, 0, 400)
linspace_x1 ==
    At(8) /\ Bind("x1", linspace(FFromInt(-20), FFromInt(0), 400, TRUE))

\* line 9: x2 = np.linspace(0, e, 200, endpoint=False)
linspace_x2 ==
    At(9) /\ Bind("x2", linspace(FFromInt(0), globals.e, 200, FALSE))

\* line 10: x3 = np.linspace(e, 20, 300)
linspace_x3 ==
    At(10) /\ Bind("x3", linspace(globals.e, FFromInt(20), 300, TRUE))

\* line 13: y1 = np.zeros_like(x1)
zeros_like_y1 == At(13) /\ Bind("y1", zeros_like(globals.x1))

\* line 14: y2 = (1/e) * x2
multiply_y2 ==
    At(14) /\ Bind("y2", multiply(FDiv(FFromInt(1), globals.e), globals.x2))

\* the RuntimeWarnings of numpy.log on the array x
LogWarnings(x) ==
    (IF \E i \in 1..Len(x) : x[i].m = <<>>
     THEN {"divide by zero encountered in log"} ELSE {})
    \cup (IF \E i \in 1..Len(x) : x[i].m # <<>> /\ x[i].s = -1
          THEN {"invalid value encountered in log"} ELSE {})

\* y3 = np.log(x1): the logarithm taken of the wrong grid
log_x1 ==
    /\ At(15)
    /\ globals' = ("y3" :> [i \in 1..Len(globals.x1) |-> log(globals.x1[i], libm)])
                  @@ globals
    /\ warnings' = warnings \cup LogWarnings(globals.x1)
    /\ pc' = NextLine(pc)
    /\ UNCHANGED <<status, libm, figs, shown>>

\* line 15: y3 = np.log(x3)
log_y3 ==
    /\ At(15)
    /\ globals' = ("y3" :> [i \in 1..Len(globals.x3) |-> log(globals.x3[i], libm)])
                  @@ globals
    /\ warnings' = warnings \cup LogWarnings(globals.x3)
    /\ pc' = NextLine(pc)
    /\ UNCHANGED <<status, libm, figs, shown>>

\* line 18: plt.figure(figsize=(8, 6))
figure ==
    /\ At(18)
    /\ figs' = Append(figs, NewFigure(8, 6))
    /\ pc' = NextLine(pc)
    /\ UNCHANGED <<status, libm, globals, shown, warnings>>

\* plt.plot(x, y, color=c): one more line on the current axes
plot(x, y, c) ==
    Draw([CurFig EXCEPT !.lines = Append(@, [x |-> x, y |-> y, color |-> c])])

\* line 19: plt.plot(x1, y1, color='blue')
plot_y1 == At(19) /\ plot(globals.x1, globals.y1, "blue")

\* line 20: plt.plot(x2, y2, color='blue')
plot_y2 == At(20) /\ plot(globals.x2, globals.y2, "blue")

\* line 21: plt.plot(x3, y3, color='blue')
plot_y3 == At(21) /\ plot(globals.x3, globals.y3, "blue")

\* line 24: plt.title("Log-Option Contract", fontsize=14)
title ==
    /\ At(24)
    /\ Draw([CurFig EXCEPT
               !.title = [text |-> "Log-Option Contract", fontsize |-> 14]])

\* line 25: plt.xlabel("x", fontsize=12)
xlabel ==
    At(25) /\ Draw([CurFig EXCEPT !.xlabel = [text |-> "x", fontsize |-> 12]])

\* line 26: plt.ylabel("f(x)", fontsize=12)
ylabel ==
    At(26) /\ Draw([CurFig EXCEPT !.ylabel = [text |-> "f(x)", fontsize |-> 12]])

\* line 27: plt.grid(True, which='both', linestyle='--', linewidth=0.5)
grid ==
    /\ At(27)
    /\ Draw([CurFig EXCEPT
               !.grid = [on |-> TRUE, which |-> "both", linestyle |-> "--",
                         linewidth |-> Half]])

\* line 30: plt.xlim(-20, 20)
xlim == At(30) /\ Draw([CurFig EXCEPT !.xlim = set_lim(-20, 20)])

\* line 31: plt.ylim(-5, 5)
ylim == At(31) /\ Draw([CurFig EXCEPT !.ylim = set_lim(-5, 5)])

\* line 32: plt.xticks(np.arange(-20, 21, 2))
xticks ==
    /\ At(32)
    /\ LET ticks == [i \in DOMAIN arange(-20, 21, 2) |->
                        FFromInt(arange(-20, 21, 2)[i])]
       IN  Draw([CurFig EXCEPT !.xticks = ticks,
                               !.xlim = set_ticks(@, ticks)])

\* line 33: plt.yticks(np.arange(-5, 5, 0.5))
yticks ==
    /\ At(33)
    /\ LET ticks == farange(FFromInt(-5), FFromInt(5), Half)
       IN  Draw([CurFig EXCEPT !.yticks = ticks,
                               !.ylim = set_ticks(@, ticks)])

\* line 36: plt.axhline(0, color='black', linewidth=0.8)
axhline ==
    /\ At(36)
    /\ Draw([CurFig EXCEPT
               !.hlines = Append(@, [at |-> FFromInt(0), color |-> "black",
                                     linewidth |-> ZeroPointEight])])

\* line 37: plt.axvline(0, color='black', linewidth=0.8)
axvline ==
    /\ At(37)
    /\ Draw([CurFig EXCEPT
               !.vlines = Append(@, [at |-> FFromInt(0), color |-> "black",
                                     linewidth |-> ZeroPointEight])])

\* line 40: plt.tight_layout()
tight_layout == At(40) /\ Draw([CurFig EXCEPT !.tight = TRUE])

\* line 41: plt.show() puts every open figure on screen and blocks
show ==
    /\ At(41)
    /\ shown = <<>>
    /\ shown' = figs
    /\ UNCHANGED <<pc, status, libm, globals, figs, warnings>>

\* plt.show() returns and the script starts over, as the body of a loop would
show_restarts ==
    /\ At(41)
    /\ shown # <<>>
    /\ pc' = Statements[1]
    /\ UNCHANGED <<status, libm, globals, figs, shown, warnings>>

\* the windows are closed: plt.show() returns, the module body is over and
\* the interpreter exits
show_returns ==
    /\ At(41)
    /\ shown # <<>>
    /\ pc' = NextLine(pc)
    /\ status' = "exited"
    /\ UNCHANGED <<libm, globals, figs, shown, warnings>>

\* the statement about to run raises (an import fails, memory runs out, no
\* display can be opened, the user interrupts): nothing catches it, and the
\* interpreter prints the traceback and exits
Raise ==
    /\ status = "running"
    /\ pc # EndOfFile
    /\ status' = "failed"
    /\ UNCHANGED <<pc, libm, globals, figs, shown, warnings>>

Next ==
    \/ import_numpy \/ import_pyplot \/ assign_e
    \/ linspace_x1 \/ linspace_x2 \/ linspace_x3
    \/ zeros_like_y1 \/ multiply_y2 \/ log_y3
    \/ figure \/ plot_y1 \/ plot_y2 \/ plot_y3
    \/ title \/ xlabel \/ ylabel \/ grid
    \/ xlim \/ ylim \/ xticks \/ yticks
    \/ axhline \/ axvline \/ tight_layout
    \/ show \/ show_returns \/ Raise

Spec == Init /\ [][Next]_vars

----------------------------------------------------------------------------
(* What the properties below are stated with.                              *)

\* the module namespace binds name
Bound(name) == name \in DOMAIN globals

\* |a - b| <= 10^-9 * c for dyadics a, b and c >= 0: the tolerance of the
\* numerical comparisons, scaled by c
WithinTol(a, b, c) ==
    DyCmp(DyMul(DyAbs(DyAdd(a, DyNeg(b))), DyInt(1000000000)), c) <= 0

\* the elements of the array a
Range(a) == {a[i] : i \in DOMAIN a}

\* C1: the three grids keep to their segments: every sample of x1 is below
\* 0, every sample of x2 is in [0, e), every sample of x3 is in [e, 20], and
\* no x is a sample of two of the plotted lines
C1_SegmentsDisjoint ==
    /\ Bound("x1") => \A i \in DOMAIN globals.x1 : FLt(globals.x1[i], FZero)
    /\ Bound("x2") => \A i \in DOMAIN globals.x2 :
                          /\ FLe(FZero, globals.x2[i])
                          /\ FLt(globals.x2[i], globals.e)
    /\ Bound("x3") => \A i \in DOMAIN globals.x3 :
                          /\ FLe(globals.e, globals.x3[i])
                          /\ FLe(globals.x3[i], FFromInt(20))
    /\ figs # <<>> =>
          \A j, k \in DOMAIN CurFig.lines :
              j < k => Range(CurFig.lines[j].x) \cap Range(CurFig.lines[k].x) = {}

\* the last sample of x1 is 0.0, which is the first sample of x2 as well,
\* and both lines are on the figure that is shown
C1_ZeroSampledTwice ==
    /\ shown # <<>>
    /\ shown[1].lines[1].x[400] = FZero
    /\ shown[1].lines[2].x[1] = FZero

\* C2: y1 has the 400 elements of x1, every one exactly 0.0, and the first
\* line plotted is y1 over x1
C2_ZeroRule ==
    /\ Bound("y1") =>
          /\ Len(globals.y1) = 400
          /\ Len(globals.x1) = 400
          /\ \A i \in 1..400 : globals.y1[i] = FZero
    /\ (figs # <<>> /\ Len(CurFig.lines) >= 1) =>
          /\ CurFig.lines[1].x = globals.x1
          /\ CurFig.lines[1].y = globals.y1

C2_Witness ==
    /\ figs # <<>>
    /\ Len(CurFig.lines) >= 1
    /\ \E i \in 1..400 : FLt(globals.x1[i], FZero) /\ CurFig.lines[1].y[i] = FZero

\* C3: y2 has the 200 elements of x2; sample i (from 0) is i * e / 200 and
\* its value is x / e, both within the tolerance; the values are
\* non-negative and strictly increasing, the first is exactly 0.0 and the
\* last is 199/200 within the tolerance; the second line plotted is y2
\* over x2
C3_LinearRule ==
    /\ Bound("y2") =>
          /\ Len(globals.y2) = 200
          /\ Len(globals.x2) = 200
          /\ \A i \in 1..200 :
                /\ WithinTol(DyMul(DyInt(200), globals.x2[i]),
                             DyMul(DyInt(i - 1), globals.e), DyInt(200))
                /\ WithinTol(DyMul(globals.y2[i], globals.e), globals.x2[i],
                             globals.e)
                /\ FLe(FZero, globals.y2[i])
          /\ \A i \in 1..199 : FLt(globals.y2[i], globals.y2[i + 1])
          /\ globals.y2[1] = FZero
          /\ WithinTol(DyMul(DyInt(200), globals.y2[200]), DyInt(199), DyInt(200))
    /\ (figs # <<>> /\ Len(CurFig.lines) >= 2) =>
          /\ CurFig.lines[2].x = globals.x2
          /\ CurFig.lines[2].y = globals.y2

C3_Witness ==
    /\ figs # <<>>
    /\ Len(CurFig.lines) >= 2
    /\ FLt(FFromInt(0), CurFig.lines[2].y[200])
    /\ FLt(CurFig.lines[2].y[200], FFromInt(1))

\* every y[i] is ln x[i] within the tolerance: it is that near to both
\* bounds of LnBounds, which have ln x[i] between them
IsLnOf(x, y) ==
    /\ Len(y) = Len(x)
    /\ \A i \in DOMAIN x :
          LET b == LnBounds(x[i])
          IN  WithinTol(y[i], b.lo, DyInt(1)) /\ WithinTol(y[i], b.hi, DyInt(1))

\* C4: line 15 binds y3 to 300 values, each ln of the sample of x3 with its
\* index, within the tolerance; x3 and y3 stay as they are from then on;
\* y3 is strictly increasing; the first sample of x3 is e and the first
\* value of y3 is 1 within the tolerance; the third line plotted is y3
\* over x3
C4_LogRule ==
    [][/\ (At(15) /\ pc' # pc) =>
             (Len(globals'.y3) = 300 /\ IsLnOf(globals.x3, globals'.y3))
       /\ Bound("y3") => (globals'.y3 = globals.y3 /\ globals'.x3 = globals.x3)
       /\ Bound("y3")' =>
             /\ \A i \in 1..299 : FLt(globals'.y3[i], globals'.y3[i + 1])
             /\ globals'.x3[1] = globals'.e
             /\ WithinTol(globals'.y3[1], DyInt(1), DyInt(1))
       /\ (figs' # <<>> /\ Len(CurFig'.lines) >= 3) =>
             /\ CurFig'.lines[3].x = globals'.x3
             /\ CurFig'.lines[3].y = globals'.y3
      ]_vars

C4_Witness ==
    /\ figs # <<>>
    /\ Len(CurFig.lines) >= 3
    /\ FLt(FFromInt(2), CurFig.lines[3].y[300])
    /\ FLt(CurFig.lines[3].y[300], FFromInt(3))

\* C5: the curve has no jump at either boundary.  At 0: the last sample of
\* x1 and the first of x2 are both 0.0, with values 0.0 and 0.0.  At e: the
\* linear rule at e, (1/e) * e, is 1 within the tolerance and is the first
\* value of y3, the logarithm at e, within the tolerance; and from the last
\* point of the linear line to the first point of the logarithm line the
\* value rises by (the step in x) / e within the tolerance, as along the
\* linear line itself
C5_Continuity ==
    /\ Bound("y2") =>
          /\ globals.x1[Len(globals.x1)] = FZero
          /\ globals.y1[Len(globals.y1)] = FZero
          /\ globals.x2[1] = FZero
          /\ globals.y2[1] = FZero
    /\ Bound("y3") =>
          LET atE == FMul(FDiv(FFromInt(1), globals.e), globals.x3[1])
              dx  == DyAdd(globals.x3[1], DyNeg(globals.x2[200]))
              dy  == DyAdd(globals.y3[1], DyNeg(globals.y2[200]))
          IN  /\ globals.x3[1] = globals.e
              /\ WithinTol(atE, DyInt(1), DyInt(1))
              /\ WithinTol(atE, globals.y3[1], DyInt(1))
              /\ WithinTol(DyMul(dy, globals.e), dx, globals.e)
    /\ (figs # <<>> /\ Len(CurFig.lines) = 3) =>
          /\ CurFig.lines[1].x[400] = CurFig.lines[2].x[1]
          /\ CurFig.lines[1].y[400] = CurFig.lines[2].y[1]
          /\ CurFig.lines[2] = [x |-> globals.x2, y |-> globals.y2, color |-> "blue"]
          /\ CurFig.lines[3] = [x |-> globals.x3, y |-> globals.y3, color |-> "blue"]

C5_Witness ==
    /\ shown # <<>>
    /\ Len(shown[1].lines) = 3
    /\ FLt(shown[1].lines[2].x[200], shown[1].lines[3].x[1])
    /\ FLt(shown[1].lines[2].y[200], shown[1].lines[3].y[1])

\* x is the grid numpy.linspace is to give for num samples from a to b:
\* num values, the first a exactly, never decreasing, each step (b - a) / div
\* within the tolerance, for div = num - 1 with the endpoint and num without;
\* with the endpoint the last is b exactly; without it b is no sample and
\* the last is a + (num - 1)(b - a) / num within the tolerance
IsGrid(x, a, b, num, endpoint) ==
    LET div == IF endpoint THEN num - 1 ELSE num
        d   == DyAdd(b, DyNeg(a))
    IN  /\ Len(x) = num
        /\ x[1] = a
        /\ \A i \in 1..(num - 1) :
              /\ FLe(x[i], x[i + 1])
              /\ WithinTol(DyMul(DyInt(div), DyAdd(x[i + 1], DyNeg(x[i]))), d,
                           DyInt(div))
        /\ endpoint => x[num] = b
        /\ ~endpoint =>
              /\ \A i \in 1..num : x[i] # b
              /\ WithinTol(DyMul(DyInt(num), DyAdd(x[num], DyNeg(a))),
                           DyMul(DyInt(num - 1), d), DyInt(num))

\* C6: each of the three grids is the grid of its linspace call: 400 from
\* -20 to 0 with the endpoint, 200 from 0 to e without it, 300 from e to 20
\* with it
C6_Linspace ==
    /\ Bound("x1") => IsGrid(globals.x1, FFromInt(-20), FFromInt(0), 400, TRUE)
    /\ Bound("x2") => IsGrid(globals.x2, FFromInt(0), globals.e, 200, FALSE)
    /\ Bound("x3") => IsGrid(globals.x3, globals.e, FFromInt(20), 300, TRUE)

C6_Witness ==
    /\ Bound("x3")
    /\ globals.x1[400] = FFromInt(0)
    /\ FLt(globals.x2[200], globals.e)
    /\ globals.x3[300] = FFromInt(20)

\* C7: numpy.log is given positive numbers only: every sample of x3 is at
\* least e, which is above 0, no value of y3 is -inf or nan, and numpy has
\* raised no warning
C7_LogDomain ==
    /\ warnings = {}
    /\ Bound("e") => FLt(FZero, globals.e)
    /\ Bound("x3") => \A i \in DOMAIN globals.x3 : FLe(globals.e, globals.x3[i])
    /\ Bound("y3") => \A i \in DOMAIN globals.y3 :
                          globals.y3[i] \notin {FNaN, FNegInf}

C7_Witness ==
    /\ Bound("y3")
    /\ Len(globals.y3) = 300
    /\ status = "exited"

\* the axes of the figure f are as lines 30-33 set them: x from -20 to 20
\* and y from -5 to 5; 21 x ticks, tick i (from 0) at -20 + 2i, so from -20
\* to 20; 20 y ticks, tick i at -5 + i/2 exactly, the last at 4.5 and none
\* at 5
AxesAsSet(f) ==
    /\ f.xlim = [auto |-> FALSE, lo |-> FFromInt(-20), hi |-> FFromInt(20)]
    /\ f.ylim = [auto |-> FALSE, lo |-> FFromInt(-5), hi |-> FFromInt(5)]
    /\ Len(f.xticks) = 21
    /\ \A i \in 1..21 : f.xticks[i] = FFromInt(2 * i - 22)
    /\ Len(f.yticks) = 20
    /\ \A i \in 1..20 : DyCmp(DyMul(DyInt(2), f.yticks[i]), DyInt(i - 11)) = 0
    /\ f.yticks[20] = FDiv(FFromInt(9), FFromInt(2))
    /\ \A i \in 1..20 : f.yticks[i] # FFromInt(5)

\* C8: once line 33 has run the axes of the figure are as set, they stay
\* so, and they are so on the figure that is shown
C8_Axes ==
    /\ pc > 33 => AxesAsSet(CurFig)
    /\ shown # <<>> => AxesAsSet(shown[1])

C8_Witness ==
    /\ shown # <<>>
    /\ Len(shown[1].yticks) = 20
    /\ shown[1].yticks[1] = FFromInt(-5)
    /\ shown[1].xticks[21] = FFromInt(20)

\* the figure f has everything the script draws: the three lines, the title,
\* both labels, the grid, both limits, both sets of ticks and both
\* reference lines
Complete(f) ==
    /\ Len(f.lines) = 3
    /\ f.title.text = "Log-Option Contract"
    /\ f.xlabel.text = "x"
    /\ f.ylabel.text = "f(x)"
    /\ f.grid.on
    /\ ~f.xlim.auto
    /\ ~f.ylim.auto
    /\ f.xticks # <<>>
    /\ f.yticks # <<>>
    /\ Len(f.hlines) = 1
    /\ Len(f.vlines) = 1

\* C9: whatever is on screen is the one complete figure, put there by the
\* last statement; a run that failed at an earlier statement has put
\* nothing on screen
C9_AllOrNothing ==
    /\ shown # <<>> => (pc >= 41 /\ Len(shown) = 1 /\ Complete(shown[1]))
    /\ (status = "failed" /\ pc < 41) => shown = <<>>

C9_Witness ==
    /\ status = "running"
    /\ shown # <<>>
    /\ Complete(shown[1])

\* a run that failed with part of the figure drawn and nothing on screen
C9_WitnessFailed ==
    /\ status = "failed"
    /\ figs # <<>>
    /\ Len(CurFig.lines) = 2
    /\ shown = <<>>

\* the lines the script plots, in the order of lines 19-21, of the
\* namespace g
Segments(g) ==
    <<[x |-> g.x1, y |-> g.y1, color |-> "blue"],
      [x |-> g.x2, y |-> g.y2, color |-> "blue"],
      [x |-> g.x3, y |-> g.y3, color |-> "blue"]>>

\* C10: every step is taken by a running program and either fails, or puts
\* the figure on screen at the last statement, or moves on to the next
\* statement, never back; a name once bound stays bound to the same value;
\* y1, y2, y3 are bound only with x1, x2, x3 all bound; there is a figure
\* only with y1, y2, y3 all bound; the lines on the figure are the first
\* one, two or three of the zero, linear and logarithm segments in that
\* order, and none is taken away; something is on screen only at the last
\* statement; and the program exits only from the last statement with the
\* figure on screen, to the end of the file
C10_Pipeline ==
    [][/\ status = "running"
       /\ \/ (status' = "failed" /\ pc' = pc)
          \/ (status' = "running" /\ pc' = pc /\ pc = 41 /\ shown = <<>>
                /\ shown' # <<>>)
          \/ (pc' = NextLine(pc) /\ pc' > pc /\ shown' = shown)
       /\ \A n \in DOMAIN globals : n \in DOMAIN globals' /\ globals'[n] = globals[n]
       /\ (\E n \in {"y1", "y2", "y3"} : n \in DOMAIN globals') =>
             {"x1", "x2", "x3"} \subseteq DOMAIN globals'
       /\ figs' # <<>> =>
             /\ Len(figs') = 1
             /\ {"y1", "y2", "y3"} \subseteq DOMAIN globals'
             /\ Len(CurFig'.lines) <= 3
             /\ CurFig'.lines = SubSeq(Segments(globals'), 1, Len(CurFig'.lines))
             /\ figs # <<>> => Len(CurFig'.lines) >= Len(CurFig.lines)
       /\ shown' # <<>> => (pc' >= 41 /\ shown' = figs')
       /\ status' = "exited" =>
             (pc = 41 /\ shown # <<>> /\ pc' = EndOfFile /\ Len(CurFig.lines) = 3)
      ]_vars

C10_Witness ==
    /\ status = "exited"
    /\ pc = EndOfFile
    /\ shown # <<>>
    /\ Len(shown[1].lines) = 3
====
